---------------------------- MODULE Spec2Model ----------------------------
(***************************************************************************)
(* Model of the transcriptor CLI (src/src/index.js): the batch scheduler   *)
(* (main), the single-item pipeline (transcribeSingleFile) with its size   *)
(* enforcement, transcription, formatting, chunk-and-merge summarization   *)
(* and append-or-skip output commit.                                       *)
(*                                                                         *)
(* Strings are sequences of one-character strings.  The content of a file  *)
(* is a sequence of pieces: a piece is a single character written by some  *)
(* earlier tool, the separator string, or one rendered output block.       *)
(***************************************************************************)
EXTENDS Integers, Sequences, FiniteSets, TLC

\* ------------------------------------------------------------------ bounds
\* most entries of ./videos in a run of the whole program
MaxVideos == 2
\* most entries of ./videos when only the queue construction is explored
MaxDirEntries == 3
\* most texts longer than maxChunk that the services return in one behaviour
MaxLongTexts == 1
\* most invocations of the program on the same working directory
MaxInvocations == 2
\* longest string and largest chunk size when chunkString alone is explored
MaxStrLen == 4
MaxChunkSize == 5

\* --------------------------------------------------------------- constants
\* ensureAudioUnderLimit(audioPath, 26214400)
limitBytes == 26214400
\* const maxChunk = 15000 (formatText and summarizeText)
maxChunk == 15000
\* slugify: .slice(0, 80)
slugMax == 80

\* ----------------------------------------------------------------- strings
\* The characters the model uses, in UTF-16 code unit order.
Ascii == << "\n", " ", "-", ".", "/", "1", "2", "4", ":", "M", "P", "T",
            "a", "b", "c", "d", "e", "h", "i", "m", "n", "o", "p", "s", "t",
            "v", "w", "x" >>

Code(c) == CHOOSE k \in 1..Len(Ascii) : Ascii[k] = c

ToLowerChar(c) == CASE c = "M" -> "m" [] c = "P" -> "p" [] c = "T" -> "t" [] OTHER -> c

toLowerCase(s) == [k \in 1..Len(s) |-> ToLowerChar(s[k])]

Min(a, b) == IF a <= b THEN a ELSE b

startsWith(s, p) == Len(s) >= Len(p) /\ SubSeq(s, 1, Len(p)) = p

endsWith(s, p) == Len(s) >= Len(p) /\ SubSeq(s, Len(s) - Len(p) + 1, Len(s)) = p

\* a < b in the order of Array.prototype.sort() without a comparator
\* (code unit by code unit; a proper prefix sorts first)
RECURSIVE LexLess(_, _)
LexLess(a, b) ==
    IF b = << >> THEN FALSE
    ELSE IF a = << >> THEN TRUE
    ELSE IF Code(Head(a)) # Code(Head(b)) THEN Code(Head(a)) < Code(Head(b))
    ELSE LexLess(Tail(a), Tail(b))

Whitespace == {" ", "\n"}

\* the first index from k upwards (the last from k downwards) of a character
\* that is not whitespace
RECURSIVE firstInk(_, _)
firstInk(s, k) == IF k > Len(s) \/ s[k] \notin Whitespace THEN k ELSE firstInk(s, k + 1)

RECURSIVE lastInk(_, _)
lastInk(s, k) == IF k < 1 \/ s[k] \notin Whitespace THEN k ELSE lastInk(s, k - 1)

\* String.prototype.trim
trim(s) == SubSeq(s, firstInk(s, 1), lastInk(s, Len(s)))

\* Array.prototype.join
RECURSIVE join(_, _)
join(parts, sep) ==
    IF parts = << >> THEN << >>
    ELSE IF Len(parts) = 1 THEN parts[1]
    ELSE parts[1] \o sep \o join(Tail(parts), sep)

\* ------------------------------------------------------------------- paths
Cwd == << "/", "w" >>
VideosDir == Cwd \o << "/", "v", "i", "d", "e", "o", "s" >>
DotMp4 == << ".", "m", "p", "4" >>
DotTxt == << ".", "t", "x", "t" >>

\* path.join(videosDir, f)
pathJoin(dir, f) == dir \o << "/" >> \o f

\* path.basename(p)
basename(p) ==
    LET slashes == {k \in 1..Len(p) : p[k] = "/"}
    IN  IF slashes = {} THEN p
        ELSE SubSeq(p, (CHOOSE k \in slashes : \A j \in slashes : k >= j) + 1, Len(p))

\* name.replace(/\.[^.]+$/, ''): drop a last extension of at least one character
stripExt(name) ==
    LET dots == {k \in 1..Len(name) : name[k] = "."}
        last == CHOOSE k \in dots : \A j \in dots : k >= j
    IN  IF dots = {} \/ last = Len(name) THEN name
        ELSE SubSeq(name, 1, last - 1)


\* ------------------------------------------------------ names of the output
SlugChars == {"-", ".", "1", "2", "4", "M", "P", "T", "a", "b", "c", "d", "e",
              "h", "i", "m", "n", "o", "p", "s", "t", "v", "w", "x"}

\* .replace(/-+/g, '-')
RECURSIVE collapseDashes(_)
collapseDashes(s) ==
    IF Len(s) < 2 THEN s
    ELSE IF s[1] = "-" /\ s[2] = "-" THEN collapseDashes(Tail(s))
    ELSE << s[1] >> \o collapseDashes(Tail(s))

\* .replace(/^[-.]+|[-.]+$/g, '')
stripDashDot(s) ==
    LET keep == {k \in 1..Len(s) : s[k] \notin {"-", "."}}
    IN  IF keep = {} THEN << >>
        ELSE SubSeq(s, CHOOSE k \in keep : \A j \in keep : k <= j,
                       CHOOSE k \in keep : \A j \in keep : k >= j)

\* slugify(s), on the characters of Ascii (NFKD and the removal of combining
\* marks leave them alone); now is the text of Date.now()
slugify(s, now) ==
    LET dashed == [k \in 1..Len(s) |-> IF s[k] \in SlugChars THEN s[k] ELSE "-"]
        cut == SubSeq(stripDashDot(collapseDashes(dashed)), 1,
                      Min(slugMax, Len(stripDashDot(collapseDashes(dashed)))))
    IN  IF cut # << >> THEN cut ELSE << "j", "o", "b", "-" >> \o now

Http == << "h", "t", "t", "p", ":", "/", "/" >>
Https == << "h", "t", "t", "p", "s", ":", "/", "/" >>

\* isLocalFile(input); no input of the model is a Windows path
isLocalFile(input) ==
    /\ ~ startsWith(toLowerCase(input), Http)
    /\ ~ startsWith(toLowerCase(input), Https)
    /\ \/ startsWith(input, << "/" >>)
       \/ startsWith(input, << ".", "/" >>)
       \/ startsWith(input, << ".", ".", "/" >>)

Transcription == << "t", "r", "a", "n", "s", "c", "r", "i", "p", "t", "i", "o", "n" >>

\* generateOutputFilename(titleOverride, videoInput, isLocal); remoteTitle is
\* what getRemoteTitle returned (<< >> for null), now the text of Date.now()
generateOutputFilename(titleOverride, input, isLocal, remoteTitle, now) ==
    LET filename ==
          IF titleOverride # << >> THEN slugify(titleOverride, now)
          ELSE IF isLocal
               THEN (IF stripExt(basename(input)) # << >>
                     THEN stripExt(basename(input)) ELSE Transcription)
               ELSE (IF remoteTitle # << >> THEN slugify(remoteTitle, now)
                     ELSE Transcription \o << "-" >> \o now)
    IN  filename \o DotTxt

\* ----------------------------------------------------------- the run queue
\* the listing without its sort
getVideosUnsorted(dir) ==
    IF ~ dir.exists THEN << >>
    ELSE LET mp4 == SelectSeq(dir.entries, LAMBDA f : endsWith(toLowerCase(f), DotMp4))
         IN  [k \in 1..Len(mp4) |-> pathJoin(VideosDir, mp4[k])]

\* getVideosFromQueue(): dir is the ./videos directory, entries in the order
\* readdirSync returns them
getVideosFromQueue(dir) ==
    IF ~ dir.exists THEN << >>
    ELSE LET mp4 == SelectSeq(dir.entries, LAMBDA f : endsWith(toLowerCase(f), DotMp4))
             paths == [k \in 1..Len(mp4) |-> pathJoin(VideosDir, mp4[k])]
         IN  SortSeq(paths, LexLess)

\* isAlreadyTranscribed(videoPath): fsNames are the names that exist in cwd
isAlreadyTranscribed(videoPath, fsNames) ==
    (stripExt(basename(videoPath)) \o DotTxt) \in fsNames

\* buildTranscribeQueue(videoFiles)
buildTranscribeQueue(videoFiles, fsNames) ==
    SelectSeq(videoFiles, LAMBDA v : ~ isAlreadyTranscribed(v, fsNames))

\* ------------------------------------------------------------ text helpers
\* chunkString(str, size)
RECURSIVE chunkFrom(_, _, _)
chunkFrom(str, size, k) ==
    IF k >= Len(str) THEN << >>
    ELSE << SubSeq(str, k + 1, Min(k + size, Len(str))) >> \o chunkFrom(str, size, k + size)

chunkString(str, size) == chunkFrom(str, size, 0)

None == << "(", "n", "o", "n", "e", ")" >>

\* buildOutputBlock({ titleIfProvided, summary, transcript })
buildOutputBlock(titleIfProvided, summary, transcript) ==
    [title |-> titleIfProvided,
     summary |-> IF summary # << >> THEN summary ELSE None,
     transcript |-> transcript]

\* ------------------------------------------------------------ file content
Ch(c) == << "ch", c >>
Sep == << "sep" >>
Block(b) == << "block", b >>

\* existing.endsWith('\n'): the separator '---\n\n' and a rendered block (its
\* last line is empty) end with a newline
endsWithNewline(content) ==
    /\ content # << >>
    /\ LET last == content[Len(content)]
       IN  IF last[1] = "ch" THEN last[2] = "\n" ELSE TRUE

\* the append without its separator
continueDataNoSeparator(existing, block) ==
    (IF endsWithNewline(existing) THEN << >> ELSE << Ch("\n") >>)
        \o << Block(block), Ch("\n") >>

\* the newline put before the separator whatever the file ends with
continueDataAlwaysNewline(existing, block) ==
    << Ch("\n"), Sep, Block(block), Ch("\n") >>

\* needsNl + separator + block + '\n'
continueData(existing, block) ==
    (IF endsWithNewline(existing) THEN << >> ELSE << Ch("\n") >>)
        \o << Sep, Block(block), Ch("\n") >>

\* block + '\n'
freshData(block) == << Block(block), Ch("\n") >>

\* ------------------------------------------------------ what the world gives
\* a text of n characters
Text(n) == [k \in 1..n |-> "a"]

\* res.text of the transcription service (<< >>: null or '')
WhisperTexts == { << >>, << " ", "\n" >>, << " ", "a", "\n" >>, Text(maxChunk + 1) }

\* message.content of a chat completion (<< >>: null or '')
ChatContents == { << >>, << "\n" >>, << "-", " ", "a" >>, Text(maxChunk + 1) }

\* st.size of an audio file; getFileSize gives 0 when stat fails
Sizes == { 0, limitBytes, limitBytes + 1 }

\* stdout of yt-dlp -e, trimmed to its first line (<< >>: none)
RemoteTitles == { << >>, << "a" >> }

\* the text of Date.now()
Timestamps == { << "1" >>, << "2" >> }

\* entries of ./videos
DirNames == { << "a", ".", "m", "p", "4" >>, << "a", ".", "M", "P", "4" >>,
              << "b", ".", "m", "p", "4" >> }

\* command lines: the video argument (<< >>: none) and --title (<< >>: none)
Inputs == { << ".", "/", "a", ".", "m", "p", "4" >>, Http \o << "x" >> }
Titles == { << >>, << "a", " " >> }

\* what cwd may hold before the program starts
OldContents == { << >>, << Ch("x") >>, << Ch("x"), Ch("\n") >> }
OldNames == { << "a" >> \o DotTxt }

\* ------------------------------------------------------------------- state
VARIABLES
    shouldContinue,  \* --continue / -c
    videoInput,      \* the video argument, << >> when absent (batch mode)
    customTitle,     \* --title, << >> when absent
    videos,          \* ./videos: [exists, entries]
    files,           \* cwd: name -> content, for the names that exist
    pc,              \* where main() is
    queue,           \* main: queue
    i,               \* main: index of the loop (from 1)
    completed,       \* main: completed
    run,             \* the frame of the current call of transcribeSingleFile
    attempted,       \* the arguments of the calls of transcribeSingleFile so far
    log,             \* the calls that returned: mode, result, destination
    longs,           \* the long texts the services have returned so far
    invocation,      \* the number of this invocation of the program (from 1)
    exitCode,        \* the status the process ends with
    chunking         \* the frame of a call of chunkString

vars == << shouldContinue, videoInput, customTitle, videos, files, pc, queue, i,
           completed, run, attempted, log, longs, invocation, exitCode, chunking >>

args == << shouldContinue, videoInput, customTitle, videos, invocation >>

main == << pc, queue, i, completed, attempted, log, exitCode >>

NoErr == [kind |-> "none", sizeMB |-> 0, limitMB |-> 0]

Stages == {"acquire", "extract", "limit", "transcribe", "format", "summarize"}

\* the frame of transcribeSingleFile before a call; extractCalls,
\* transcribeCalls, chatCalls, done, startExists and startContent record what
\* the call did and found
RunIdle ==
    [rpc |-> "idle", input |-> << >>, titleOverride |-> << >>, outFile |-> << >>,
     startExists |-> FALSE, startContent |-> << >>,
     size |-> 0, newSize |-> 0, payload |-> 0,
     transcript |-> << >>, formatted |-> << >>, parts |-> << >>, summary |-> << >>,
     err |-> NoErr, result |-> FALSE,
     extractCalls |-> 0, transcribeCalls |-> 0, chatCalls |-> << >>, done |-> {}]

\* the frame of chunkString before a call: i is the loop index, from 0
ChunkIdle == [rpc |-> "idle", str |-> << >>, size |-> 1, i |-> 0, chunks |-> << >>]

\* the subsets of S with at most n elements
UpTo(S, n) == {T \in SUBSET S : Cardinality(T) <= n}

\* the orders readdirSync may list a directory in
Orders(S) == {o \in [1..Cardinality(S) -> S] : \A a, b \in DOMAIN o : a # b => o[a] # o[b]}

NoFiles == [n \in {} |-> << >>]

InitialFiles ==
    { NoFiles } \cup UNION { { [n \in {name} |-> c] : c \in OldContents } : name \in OldNames }

NoVideos == [exists |-> FALSE, entries |-> {}]

\* main() has not started
AtStart ==
    /\ pc = "start"
    /\ queue = << >>
    /\ i = 1
    /\ completed = 0
    /\ run = RunIdle
    /\ attempted = << >>
    /\ log = << >>
    /\ longs = 0
    /\ invocation = 1
    /\ exitCode = 0
    /\ chunking = ChunkIdle

Init ==
    /\ shouldContinue \in BOOLEAN
    /\ \/ /\ videoInput = << >>
          /\ customTitle = << >>
          /\ videos \in { NoVideos } \cup
                        { [exists |-> TRUE, entries |-> e] : e \in UpTo(DirNames, MaxVideos) }
       \/ /\ videoInput \in Inputs
          /\ customTitle \in Titles
          /\ videos = NoVideos
    /\ files \in InitialFiles
    /\ AtStart

\* -------------------------------------------------------------------- main
\* transcribeSingleFile(videoInputPath, openai, titleOverride) is called
Call(input, title) ==
    /\ run' = [RunIdle EXCEPT !.rpc = "begin", !.input = input, !.titleOverride = title]
    /\ attempted' = Append(attempted, input)

\* what a call that returned leaves in the log: block is the block it wrote
Returned ==
    [inv |-> invocation, input |-> run.input,
     cont |-> shouldContinue, ok |-> run.result, out |-> run.outFile,
     existed |-> run.startExists, before |-> Len(run.startContent),
     after |-> IF run.outFile \in DOMAIN files THEN Len(files[run.outFile]) ELSE 0,
     block |-> IF run.result
               THEN buildOutputBlock(run.titleOverride, run.summary, run.formatted)
               ELSE buildOutputBlock(<< >>, << >>, << >>)]

\* process.exit(1) before any work: OPENAI_API_KEY is missing, or ensureBinary
\* cannot launch ffmpeg or yt-dlp
ExitEarly ==
    /\ pc = "start"
    /\ pc' = "exit"
    /\ exitCode' = 1
    /\ UNCHANGED << args, files, queue, i, completed, run, attempted, log, longs, chunking >>

\* main(), up to the first call of transcribeSingleFile or the early return
MainStart ==
    /\ pc = "start"
    /\ IF videoInput # << >>
       THEN /\ pc' = "single"
            /\ Call(videoInput, customTitle)
            /\ UNCHANGED << queue, i, completed >>
       ELSE \E order \in Orders(videos.entries) :
              LET allVideos == getVideosFromQueue([exists |-> videos.exists, entries |-> order])
                  q == buildTranscribeQueue(allVideos, DOMAIN files)
              IN  /\ queue' = (IF Len(allVideos) = 0 THEN << >> ELSE q)
                  /\ pc' = (IF Len(allVideos) = 0 \/ Len(q) = 0 THEN "done" ELSE "loop")
                  /\ UNCHANGED << i, completed, attempted, run >>
    /\ UNCHANGED << args, files, log, longs, exitCode, chunking >>

\* for (let i = 0; i < queue.length; i++): the call of the loop body
LoopCall ==
    /\ pc = "loop"
    /\ i <= Len(queue)
    /\ pc' = "await"
    /\ Call(queue[i], << >>)
    /\ UNCHANGED << args, files, queue, i, completed, log, longs, exitCode, chunking >>

\* a loop that stops at the first item that fails
loopAfterAborts(success) ==
    /\ completed' = (IF success THEN completed + 1 ELSE completed)
    /\ i' = i + 1
    /\ pc' = (IF success THEN "loop" ELSE "done")

\* every item counted, whatever its run returned
loopAfterCountsAll(success) ==
    /\ completed' = completed + 1
    /\ i' = i + 1
    /\ pc' = "loop"

\* what the loop does with the value of transcribeSingleFile
loopAfter(success) ==
    /\ completed' = (IF success THEN completed + 1 ELSE completed)
    /\ i' = i + 1
    /\ pc' = "loop"

\* the call not awaited
settledAtOnce(r) == r.rpc # "idle"

\* await transcribeSingleFile(...): main goes on when the call has returned
settled(r) == r.rpc = "returned"

LoopReturn ==
    /\ pc = "await"
    /\ settled(run)
    /\ loopAfter(run.result)
    /\ run' = RunIdle
    /\ log' = Append(log, Returned)
    /\ UNCHANGED << args, files, queue, attempted, longs, exitCode, chunking >>

\* the loop ends: the final report
LoopEnd ==
    /\ pc = "loop"
    /\ i > Len(queue)
    /\ pc' = "done"
    /\ UNCHANGED << args, files, queue, i, completed, run, attempted, log, longs,
                    exitCode, chunking >>

\* single file mode: await transcribeSingleFile(...); return
SingleReturn ==
    /\ pc = "single"
    /\ settled(run)
    /\ pc' = "done"
    /\ run' = RunIdle
    /\ log' = Append(log, Returned)
    /\ UNCHANGED << args, files, queue, i, completed, attempted, longs, exitCode,
                    chunking >>

\* ----------------------------------------------------- transcribeSingleFile
Err(kind) == [kind |-> kind, sizeMB |-> 0, limitMB |-> 0]

\* (n / (1024 * 1024)).toFixed(2), in hundredths
toFixed2MB(n) ==
    (n \div (1024 * 1024)) * 100
        + ((n % (1024 * 1024)) * 100 + (1024 * 1024) \div 2) \div (1024 * 1024)

\* the Error of ensureAudioUnderLimit: the message gives both in MB
SizeErr(newSize, limit) ==
    [kind |-> "sizelimit", sizeMB |-> toFixed2MB(newSize), limitMB |-> toFixed2MB(limit)]

\* the next statement runs with frame r
Step(r) ==
    /\ run' = r
    /\ UNCHANGED << files, longs >>

\* the next statement runs with frame r, after a service returned text t
StepGiven(r, t) ==
    /\ run' = r
    /\ longs' = (IF Len(t) > maxChunk THEN longs + 1 ELSE longs)
    /\ UNCHANGED files

\* where the try block goes on after the statement at rpc
StatementAfter(rpc) ==
    CASE rpc = "acquire" -> "extract"
      [] rpc = "extract" -> "limit"
      [] rpc \in {"limit", "recompress"} -> "transcribe"
      [] rpc = "transcribe" -> "format"
      [] rpc = "format" -> "summarize"
      [] OTHER -> "write"

\* a failure that is reported and the try block goes on with the next statement
CatchGoesOn(r, e) ==
    /\ run' = [r EXCEPT !.err = e, !.rpc = StatementAfter(r.rpc)]
    /\ UNCHANGED << files, longs >>

\* a catch that writes what the run has so far
CatchWritesPartial(r, e) ==
    /\ run' = [r EXCEPT !.rpc = "returned", !.err = e, !.result = FALSE]
    /\ files' = [n \in DOMAIN files \cup {r.outFile} |->
                   IF n = r.outFile
                   THEN (IF n \in DOMAIN files THEN files[n] ELSE << >>)
                            \o << Block([title |-> r.titleOverride, summary |-> r.summary,
                                         transcript |-> r.formatted]) >>
                   ELSE files[n]]
    /\ UNCHANGED longs

\* catch (err) { console.error(...); return false; }
Catch(r, e) ==
    /\ run' = [r EXCEPT !.rpc = "returned", !.err = e, !.result = FALSE]
    /\ UNCHANGED << files, longs >>

\* the texts of S a service may still return
Answers(S) == {t \in S : Len(t) > maxChunk => longs < MaxLongTexts}

\* the existence check left out
skipNever(exists) == FALSE

\* if (fs.existsSync(outFile)) { if (!shouldContinue) { ...; return false; } }
skipExisting(exists) == exists /\ ~ shouldContinue

\* from the entry to the try block: the output name and the existence check
Begin ==
    /\ run.rpc = "begin"
    /\ \E remoteTitle \in RemoteTitles, now \in Timestamps :
         LET out == generateOutputFilename(run.titleOverride, run.input,
                                           isLocalFile(run.input), remoteTitle, now)
             exists == out \in DOMAIN files
             r == [run EXCEPT !.outFile = out, !.startExists = exists,
                              !.startContent = IF exists THEN files[out] ELSE << >>]
         IN  IF skipExisting(exists)
             THEN Step([r EXCEPT !.rpc = "returned", !.result = FALSE])
             ELSE Step([r EXCEPT !.rpc = "acquire"])
    /\ UNCHANGED << args, main, chunking >>

\* 1. prepareLocalVideo or downloadVideo
Acquire ==
    /\ run.rpc = "acquire"
    /\ \E ok \in BOOLEAN :
         IF ok THEN Step([run EXCEPT !.rpc = "extract", !.done = @ \cup {"acquire"}])
         ELSE Catch(run, Err("acquisition"))
    /\ UNCHANGED << args, main, chunking >>

\* 2. await extractAudio(videoPath, audioPath)
ExtractAudio ==
    /\ run.rpc = "extract"
    /\ \E ok \in BOOLEAN :
         LET r == [run EXCEPT !.extractCalls = @ + 1]
         IN  IF ok THEN Step([r EXCEPT !.rpc = "limit", !.done = @ \cup {"extract"}])
             ELSE Catch(r, Err("transcode"))
    /\ UNCHANGED << args, main, chunking >>

\* the comparison with the limit left out
underLimitUnchecked(size, limit) == size > 0

\* a size of 0 taken for a payload
underLimitWithZero(size, limit) == size <= limit

\* size > 0 && size <= limitBytes
underLimit(size, limit) == size > 0 /\ size <= limit

\* ensureAudioUnderLimit returns a path whose file has s bytes: its frame
\* (size, newSize) is gone
compliant(r, s) ==
    [r EXCEPT !.size = 0, !.newSize = 0, !.payload = s, !.rpc = "transcribe",
              !.done = @ \cup {"limit"}]

\* 2b. ensureAudioUnderLimit, to its return or to its call of extractAudio
EnsureLimit ==
    /\ run.rpc = "limit"
    /\ \E s \in Sizes :
         IF underLimit(s, limitBytes) THEN Step(compliant(run, s))
         ELSE Step([run EXCEPT !.size = s, !.rpc = "recompress"])
    /\ UNCHANGED << args, main, chunking >>

\* a third attempt when the second is still too large
afterRecompressRetries(r, ns) ==
    IF underLimit(ns, limitBytes) THEN Step(compliant(r, ns))
    ELSE Step([r EXCEPT !.newSize = ns, !.rpc = "recompress"])

\* the second attempt taken whatever its size
afterRecompressProceeds(r, ns) ==
    Step([r EXCEPT !.newSize = ns, !.payload = ns, !.rpc = "transcribe",
                   !.done = @ \cup {"limit"}])

\* ensureAudioUnderLimit after its extractAudio returned: r is the frame, ns
\* the size of the recompressed file
afterRecompress(r, ns) ==
    IF underLimit(ns, limitBytes) THEN Step(compliant(r, ns))
    ELSE Catch([r EXCEPT !.newSize = ns], SizeErr(ns, limitBytes))

\* await extractAudio(inputPath, tmpOut, 16) and the rest of ensureAudioUnderLimit
Recompress ==
    /\ run.rpc = "recompress"
    /\ \E ok \in BOOLEAN :
         LET r == [run EXCEPT !.extractCalls = @ + 1]
         IN  IF ok THEN \E ns \in Sizes : afterRecompress(r, ns)
             ELSE Catch(r, Err("transcode"))
    /\ UNCHANGED << args, main, chunking >>

\* the kinds of failure of the transcription call: the service cannot be
\* reached (timeout, DNS, reset), or it rejects the request
TranscriptionFailures == { "connectivity", "transcription" }

\* the test for an empty text left out
noTextNever(text) == FALSE

\* !text
noText(text) == text = << >>

\* 3. transcribeAudio(openai, limitedAudioPath)
Transcribe ==
    /\ run.rpc = "transcribe"
    /\ LET r == [run EXCEPT !.transcribeCalls = @ + 1]
       IN  \/ \E kind \in TranscriptionFailures : Catch(r, Err(kind))
           \/ \E text \in Answers(WhisperTexts) :
                IF noText(trim(text)) THEN Catch(r, Err("empty"))
                ELSE StepGiven([r EXCEPT !.transcript = trim(text), !.rpc = "format",
                                         !.done = @ \cup {"transcribe"}], text)
    /\ UNCHANGED << args, main, chunking >>

NlNl == << "\n", "\n" >>

\* the threshold off by one
fitsBelow(text) == Len(text) < maxChunk

\* formatText and summarizeText take the single call for these lengths
fitsOneCall(text) == Len(text) <= maxChunk

\* 4. formatText, text.length <= maxChunk: the one call
FormatSingle ==
    /\ run.rpc = "format"
    /\ fitsOneCall(run.transcript)
    /\ LET r == [run EXCEPT !.chatCalls = Append(@, "format")]
       IN  \/ Catch(r, Err("format"))
           \/ \E content \in Answers(ChatContents) :
                StepGiven([r EXCEPT !.formatted = trim(content), !.rpc = "summarize",
                                    !.done = @ \cup {"format"}], content)
    /\ UNCHANGED << args, main, chunking >>

\* formatText after the answer to a chunk call: formatted are the answers so
\* far, n the number of chunks
afterFormatChunk(r, formatted, n) ==
    IF Len(formatted) < n THEN [r EXCEPT !.parts = formatted]
    ELSE [r EXCEPT !.parts = << >>, !.formatted = join(formatted, NlNl),
                   !.rpc = "summarize", !.done = @ \cup {"format"}]

\* 4. formatText, long text: the call for chunk Len(parts) + 1, and after the
\* last one formatted.join('\n\n')
FormatChunk ==
    /\ run.rpc = "format"
    /\ ~ fitsOneCall(run.transcript)
    /\ LET r == [run EXCEPT !.chatCalls = Append(@, "formatChunk")]
           chunks == chunkString(run.transcript, maxChunk)
       IN  \/ Catch(r, Err("format"))
           \/ \E content \in Answers(ChatContents) :
                StepGiven(afterFormatChunk(r, Append(run.parts, trim(content)), Len(chunks)),
                          content)
    /\ UNCHANGED << args, main, chunking >>

\* 5. summarizeText, text.length <= maxChunk: the one call
SummarizeSingle ==
    /\ run.rpc = "summarize"
    /\ fitsOneCall(run.formatted)
    /\ LET r == [run EXCEPT !.chatCalls = Append(@, "single")]
       IN  \/ Catch(r, Err("summarization"))
           \/ \E content \in Answers(ChatContents) :
                StepGiven([r EXCEPT !.summary = trim(content), !.rpc = "write",
                                    !.done = @ \cup {"summarize"}], content)
    /\ UNCHANGED << args, main, chunking >>

\* summarizeText after the answer to a chunk call: partials are the answers
\* so far, n the number of chunks
afterChunk(r, partials, n) ==
    IF Len(partials) < n THEN [r EXCEPT !.parts = partials]
    ELSE [r EXCEPT !.parts = partials, !.rpc = "merge"]

\* 5. summarizeText, long text: the call for chunk Len(parts) + 1
SummarizeChunk ==
    /\ run.rpc = "summarize"
    /\ ~ fitsOneCall(run.formatted)
    /\ LET r == [run EXCEPT !.chatCalls = Append(@, "chunk")]
           chunks == chunkString(run.formatted, maxChunk)
       IN  \/ Catch(r, Err("summarization"))
           \/ \E content \in Answers(ChatContents) :
                StepGiven(afterChunk(r, Append(run.parts, trim(content)), Len(chunks)),
                          content)
    /\ UNCHANGED << args, main, chunking >>

\* 5. summarizeText, long text: the merge call on partials.join('\n\n')
SummarizeMerge ==
    /\ run.rpc = "merge"
    /\ LET r == [run EXCEPT !.chatCalls = Append(@, "merge")]
       IN  \/ Catch(r, Err("summarization"))
           \/ \E content \in Answers(ChatContents) :
                StepGiven([r EXCEPT !.parts = << >>, !.summary = trim(content),
                                    !.rpc = "write", !.done = @ \cup {"summarize"}],
                          content)
    /\ UNCHANGED << args, main, chunking >>

\* the write always taken for the append
appendsNever(exists) == FALSE

\* shouldContinue && fs.existsSync(outFile)
appends(exists) == shouldContinue /\ exists

\* fs.appendFileSync(outFile, data) / fs.writeFileSync(outFile, data, flag 'w')
written(fs, name, block) ==
    IF appends(name \in DOMAIN fs)
    THEN [fs EXCEPT ![name] = @ \o continueData(@, block)]
    ELSE [n \in DOMAIN fs \cup {name} |-> IF n = name THEN freshData(block) ELSE fs[n]]

\* 6. buildOutputBlock and the write; return true
WriteOutput ==
    /\ run.rpc = "write"
    /\ files' = written(files, run.outFile,
                        buildOutputBlock(run.titleOverride, run.summary, run.formatted))
    /\ run' = [run EXCEPT !.rpc = "returned", !.result = TRUE]
    /\ UNCHANGED << args, main, longs, chunking >>

\* ------------------------------------------------------------ specification
Pipeline ==
    \/ Begin
    \/ Acquire
    \/ ExtractAudio
    \/ EnsureLimit
    \/ Recompress
    \/ Transcribe
    \/ FormatSingle
    \/ FormatChunk
    \/ SummarizeSingle
    \/ SummarizeChunk
    \/ SummarizeMerge
    \/ WriteOutput

Next ==
    \/ ExitEarly
    \/ MainStart
    \/ LoopCall
    \/ LoopReturn
    \/ LoopEnd
    \/ SingleReturn
    \/ Pipeline

\* one invocation of the program
Spec == Init /\ [][Next]_vars

\* every await of the program returns: the external tools and services answer
FairSpec == Spec /\ WF_vars(Next)

\* repeated invocations of the program on one local file: the next one starts
\* when main() has returned, with or without --continue
LocalInput == << ".", "/", "a", ".", "m", "p", "4" >>

InitRepeat ==
    /\ shouldContinue \in BOOLEAN
    /\ videoInput = LocalInput
    /\ customTitle = << >>
    /\ videos = NoVideos
    /\ files \in InitialFiles
    /\ AtStart

Reinvoke ==
    /\ pc = "done"
    /\ invocation < MaxInvocations
    /\ invocation' = invocation + 1
    /\ shouldContinue' \in BOOLEAN
    /\ pc' = "start"
    /\ queue' = << >>
    /\ i' = 1
    /\ completed' = 0
    /\ attempted' = << >>
    /\ UNCHANGED << videoInput, customTitle, videos, files, run, log, longs, exitCode,
                    chunking >>

NextRepeat ==
    \/ MainStart
    \/ SingleReturn
    \/ Pipeline
    \/ Reinvoke

SpecRepeat == InitRepeat /\ [][NextRepeat]_vars

\* repeated batch invocations over one ./videos directory, whose entries
\* include a file with nothing before its extension
BatchDirNames == { << "a" >> \o DotMp4, DotMp4 }

InitBatchRepeat ==
    /\ shouldContinue \in BOOLEAN
    /\ videoInput = << >>
    /\ customTitle = << >>
    /\ videos \in { [exists |-> TRUE, entries |-> e] : e \in SUBSET BatchDirNames }
    /\ files = NoFiles
    /\ AtStart

NextBatchRepeat ==
    \/ MainStart
    \/ LoopCall
    \/ LoopReturn
    \/ LoopEnd
    \/ Pipeline
    \/ Reinvoke

SpecBatchRepeat == InitBatchRepeat /\ [][NextBatchRepeat]_vars

\* the construction of the run queue alone, for the directories and the
\* transcripts a working directory may hold
QueueDirNames ==
    DirNames \cup { << "c", ".", "m", "p", "4" >>, << ".", "m", "p", "4" >>,
                    << "n", ".", "t", "x", "t" >> }

QueueOldNames ==
    { << "a" >> \o DotTxt, << "b" >> \o DotTxt, << "c" >> \o DotTxt, DotTxt }

InitQueue ==
    /\ shouldContinue = FALSE
    /\ videoInput = << >>
    /\ customTitle = << >>
    /\ videos \in { NoVideos } \cup
                  { [exists |-> TRUE, entries |-> e] : e \in UpTo(QueueDirNames, MaxDirEntries) }
    /\ files \in { [n \in names |-> << Ch("x"), Ch("\n") >>] : names \in SUBSET QueueOldNames }
    /\ AtStart

NextQueue == MainStart

SpecQueue == InitQueue /\ [][NextQueue]_vars

\* summarizeText alone, on the texts formatText may have returned
SummarizeLengths ==
    { 0, 1, maxChunk - 1, maxChunk, maxChunk + 1, 2 * maxChunk, 2 * maxChunk + 1 }

InitSummarize ==
    /\ shouldContinue = FALSE
    /\ videoInput = LocalInput
    /\ customTitle = << >>
    /\ videos = NoVideos
    /\ files = NoFiles
    /\ pc = "single"
    /\ queue = << >>
    /\ i = 1
    /\ completed = 0
    /\ \E n \in SummarizeLengths :
         run = [RunIdle EXCEPT !.rpc = "summarize", !.input = LocalInput,
                               !.outFile = << "a" >> \o DotTxt, !.payload = limitBytes,
                               !.transcript = << "a" >>, !.formatted = Text(n),
                               !.extractCalls = 1, !.transcribeCalls = 1,
                               !.chatCalls = << "format" >>,
                               !.done = Stages \ {"summarize"}]
    /\ attempted = << LocalInput >>
    /\ log = << >>
    /\ longs = 0
    /\ invocation = 1
    /\ exitCode = 0
    /\ chunking = ChunkIdle

NextSummarize ==
    \/ SummarizeSingle
    \/ SummarizeChunk
    \/ SummarizeMerge

SpecSummarize == InitSummarize /\ [][NextSummarize]_vars

\* chunkString alone, on short strings with every small chunk size and on the
\* long texts of the pipeline with maxChunk
ChunkChars == { "a", "b" }

ChunkCalls ==
    { << s, n >> : s \in UNION { [1..len -> ChunkChars] : len \in 0..MaxStrLen },
                   n \in 1..MaxChunkSize }
      \cup { << Text(len), maxChunk >> : len \in { maxChunk, maxChunk + 1, 2 * maxChunk + 1 } }

InitChunk ==
    /\ shouldContinue = FALSE
    /\ videoInput = LocalInput
    /\ customTitle = << >>
    /\ videos = NoVideos
    /\ files = NoFiles
    /\ pc = "single"
    /\ queue = << >>
    /\ i = 1
    /\ completed = 0
    /\ run = RunIdle
    /\ attempted = << >>
    /\ log = << >>
    /\ longs = 0
    /\ invocation = 1
    /\ exitCode = 0
    /\ \E call \in ChunkCalls :
         chunking = [ChunkIdle EXCEPT !.rpc = "loop", !.str = call[1], !.size = call[2]]

\* the end index taken as inclusive
sliceInclusive(str, from, to) == SubSeq(str, from + 1, Min(to + 1, Len(str)))

\* str.slice(from, to) for 0 <= from <= to
slice(str, from, to) == SubSeq(str, from + 1, Min(to, Len(str)))

\* one turn of the loop: chunks.push(str.slice(i, i + size)); i += size
ChunkPush ==
    /\ chunking.rpc = "loop"
    /\ chunking.i < Len(chunking.str)
    /\ chunking' = [chunking EXCEPT
                       !.chunks = Append(@, slice(chunking.str, chunking.i,
                                                  chunking.i + chunking.size)),
                       !.i = @ + chunking.size]
    /\ UNCHANGED << args, main, files, run, longs >>

\* the loop ends: return chunks
ChunkReturn ==
    /\ chunking.rpc = "loop"
    /\ chunking.i >= Len(chunking.str)
    /\ chunking' = [chunking EXCEPT !.rpc = "returned"]
    /\ UNCHANGED << args, main, files, run, longs >>

NextChunk ==
    \/ ChunkPush
    \/ ChunkReturn

SpecChunk == InitChunk /\ [][NextChunk]_vars

\* ------------------------------------------------------------------ claims
IsPrefix(a, b) == Len(a) <= Len(b) /\ SubSeq(b, 1, Len(a)) = a

\* a call of transcribeSingleFile is past its existence check
InRun == run.rpc \notin {"idle", "begin"}

\* the destination of the current call is as the call found it
DestinationAsFound ==
    IF run.startExists
    THEN run.outFile \in DOMAIN files /\ files[run.outFile] = run.startContent
    ELSE run.outFile \notin DOMAIN files

\* C1: a run without continue mode that finds its destination leaves the
\* content of the destination as it found it, in every state of the run and
\* so at its end, whatever the outcome
C1_FreshKeepsExisting ==
    (InRun /\ ~ shouldContinue /\ run.startExists) =>
        (run.outFile \in DOMAIN files /\ files[run.outFile] = run.startContent)

\* a run without continue mode has returned from a destination with content
C1_Witness ==
    /\ run.rpc = "returned"
    /\ ~ shouldContinue
    /\ run.startExists
    /\ run.startContent # << >>

\* C2: every step of every invocation keeps every file, with its content before
\* the step a prefix of its content after it
C2_FilesOnlyGrow ==
    [][\A n \in DOMAIN files : n \in DOMAIN files' /\ IsPrefix(files[n], files'[n])]_vars

\* a second invocation has appended to what an earlier one wrote
C2_Witness ==
    /\ invocation = 2
    /\ run.rpc = "returned"
    /\ run.result
    /\ run.startExists
    /\ Len(log) = 1 /\ log[1].ok
    /\ Len(files[run.outFile]) > Len(run.startContent)

\* C3: a step changes a file only in a run that has completed every stage and
\* returns true, and a run that has failed has left its destination as found
C3_NoPartialOutput ==
    /\ [][files' # files => (Stages \subseteq run.done /\ run.rpc = "write" /\ run'.result)]_vars
    /\ []((run.rpc = "returned" /\ ~ run.result) => DestinationAsFound)

\* a run has failed in a chunk call of the summarizer after an earlier chunk
\* call had answered
C3_Witness ==
    /\ run.rpc = "returned"
    /\ run.err.kind = "summarization"
    /\ run.parts # << >>
    /\ ~ run.startExists

\* the pieces of content of one kind
Pieces(content, kind) == SelectSeq(content, LAMBDA piece : piece[1] = kind)

\* every run so far was a continue run that succeeded, the first of them on a
\* destination that was absent or empty
OnlyContinueSuccesses ==
    /\ Len(log) >= 1
    /\ log[1].before = 0
    /\ \A k \in 1..Len(log) : log[k].cont /\ log[k].ok

\* C4: after N successful continue runs on a destination that was absent or
\* empty, the destination holds the N blocks of the runs in the order of the
\* runs, every block after the first comes right after a separator, every
\* separator is followed by a block, and every run made the content longer
C4_ContinueAppendsBlocks ==
    (pc = "done" /\ OnlyContinueSuccesses) =>
        LET content == files[log[1].out]
            blocks == Pieces(content, "block")
        IN  /\ blocks = [k \in 1..Len(log) |-> Block(log[k].block)]
            /\ Len(Pieces(content, "sep")) = (IF log[1].existed THEN Len(log) ELSE Len(log) - 1)
            /\ \A p \in 1..Len(content) :
                 /\ (content[p][1] = "block" /\ \E q \in 1..(p - 1) : content[q][1] = "block")
                      => content[p - 1] = Sep
                 /\ content[p] = Sep => (p < Len(content) /\ content[p + 1][1] = "block")
            /\ \A k \in 1..Len(log) : log[k].after > log[k].before
            /\ \A k \in 1..(Len(log) - 1) : log[k + 1].before = log[k].after

\* two successful continue runs, the first on an absent destination
C4_Witness ==
    /\ pc = "done"
    /\ OnlyContinueSuccesses
    /\ Len(log) = 2
    /\ ~ log[1].existed

\* C5: no run calls extractAudio more than twice
C5_AtMostTwoTranscodings == run.extractCalls <= 2

\* a run whose first payload was not accepted goes on with the second
C5_Witness ==
    /\ run.extractCalls = 2
    /\ run.rpc = "transcribe"

\* C6: the payload handed to transcribeAudio has at most limitBytes bytes
C6_CompliantPayload ==
    (run.rpc = "transcribe" \/ run.transcribeCalls > 0) => run.payload <= limitBytes

\* the transcription was called on a payload of exactly the limit
C6_Witness ==
    /\ run.transcribeCalls = 1
    /\ run.payload = limitBytes
    /\ run.extractCalls = 1

\* C7: when both payloads are over the limit the run has failed with the error
\* that gives the second size and the limit, after two transcodings, with no
\* transcription or chat call, and its destination is as it found it
C7_StillTooLargeFails ==
    (run.size > limitBytes /\ run.newSize > limitBytes) =>
        /\ run.rpc = "returned"
        /\ ~ run.result
        /\ run.err = [kind |-> "sizelimit", sizeMB |-> toFixed2MB(run.newSize),
                      limitMB |-> toFixed2MB(limitBytes)]
        /\ run.extractCalls = 2
        /\ run.transcribeCalls = 0
        /\ run.chatCalls = << >>
        /\ DestinationAsFound

\* both payloads were one byte over the limit
C7_Witness ==
    /\ run.size = limitBytes + 1
    /\ run.newSize = limitBytes + 1
    /\ run.err.kind = "sizelimit"

\* the calls of summarizeText in the current run, in order
SummaryCalls == SelectSeq(run.chatCalls, LAMBDA c : c \in {"single", "chunk", "merge"})

\* the number of windows of maxChunk characters the text falls into
Windows == (Len(run.formatted) + maxChunk - 1) \div maxChunk

\* C8: when summarizeText has returned it has made one call for a text of at
\* most maxChunk characters, and otherwise one chunk call for each of its two
\* or more chunks and then one merge call; the merge call is made only when
\* every chunk call has answered
C8_SummarizerCalls ==
    /\ (run.rpc = "write" /\ Len(run.formatted) <= maxChunk) => SummaryCalls = << "single" >>
    /\ (run.rpc = "write" /\ Len(run.formatted) > maxChunk) =>
          /\ Windows >= 2
          /\ SummaryCalls = [k \in 1..(Windows + 1) |-> IF k <= Windows THEN "chunk" ELSE "merge"]
    /\ run.rpc = "merge" =>
          /\ SummaryCalls = [k \in 1..Windows |-> "chunk"]
          /\ Len(run.parts) = Windows
    /\ \A k \in 1..Len(SummaryCalls) : SummaryCalls[k] = "merge" => k = Windows + 1

\* the summary of a text of maxChunk + 1 characters has returned
C8_Witness ==
    /\ run.rpc = "write"
    /\ Len(run.formatted) = maxChunk + 1
    /\ SummaryCalls = << "chunk", "chunk", "merge" >>

\* the entries of ./videos that are candidates, and the transcript of one
IsCandidate(f) == Len(f) >= 4 /\ toLowerCase(SubSeq(f, Len(f) - 3, Len(f))) = DotMp4
TranscriptOf(f) == SubSeq(f, 1, Len(f) - 4) \o DotTxt

\* C9: the run queue holds exactly the candidates whose transcript does not
\* exist, each once, in ascending order
C9_RunQueue ==
    pc # "start" =>
        /\ {queue[k] : k \in 1..Len(queue)} =
             {pathJoin(VideosDir, f) : f \in {e \in videos.entries :
                  IsCandidate(e) /\ TranscriptOf(e) \notin DOMAIN files}}
        /\ \A k \in 1..(Len(queue) - 1) : LexLess(queue[k], queue[k + 1])

\* a.mp4, b.mp4 and c.mp4 with b.txt present give the queue a.mp4, c.mp4
C9_Witness ==
    /\ pc = "loop"
    /\ videos.entries = { << "a" >> \o DotMp4, << "b" >> \o DotMp4, << "c" >> \o DotMp4 }
    /\ DOMAIN files = { << "b" >> \o DotTxt }
    /\ queue = << pathJoin(VideosDir, << "a" >> \o DotMp4),
                  pathJoin(VideosDir, << "c" >> \o DotMp4) >>

Ended == pc = "done"

\* C11: in single-item mode a run that ends in a pipeline error (a failed
\* stage, or a destination that exists without continue mode) makes the
\* process end with a non-zero exit status
C11_SingleErrorExitsNonZero ==
    (videoInput # << >> /\ Ended /\ Len(log) = 1 /\ ~ log[1].ok) => exitCode # 0

\* C12: without continue mode, a run that found its destination has ended in
\* a failure that carries an error, before any stage was performed
C12_FreshCollisionFails ==
    (run.rpc = "returned" /\ ~ shouldContinue /\ run.startExists) =>
        /\ ~ run.result
        /\ run.err # NoErr
        /\ run.done = {}
        /\ run.extractCalls = 0 /\ run.transcribeCalls = 0 /\ run.chatCalls = << >>

\* C13: a run whose transcription came back empty after trimming has failed
\* with the empty-transcription error after exactly one transcription call
\* and no chat call, with its destination as it found it; and the transcript
\* of a run that went past the transcription is trimmed and not empty
C13_EmptyTranscriptionFails ==
    /\ run.err.kind = "empty" =>
          /\ run.rpc = "returned"
          /\ ~ run.result
          /\ run.transcribeCalls = 1
          /\ run.chatCalls = << >>
          /\ DestinationAsFound
    /\ "transcribe" \in run.done =>
          /\ run.transcript # << >>
          /\ trim(run.transcript) = run.transcript
          /\ run.transcribeCalls = 1

\* a continue run on a destination with content got an empty transcription
C13_Witness ==
    /\ run.err.kind = "empty"
    /\ shouldContinue
    /\ run.startContent # << >>

\* C14: a run that failed on a connectivity failure of the transcription
\* call has made the call more than once
C14_ConnectivityRetried ==
    (run.rpc = "returned" /\ run.err.kind = "connectivity") => run.transcribeCalls > 1

\* the block a run that returned true has written: the last block of its
\* destination, before the final newline
WrittenBlock == files[run.outFile][Len(files[run.outFile]) - 1][2]

\* C15: the block a successful run has written has a transcript section and a
\* summary section that are not empty
C15_BlockSectionsNonEmpty ==
    (run.rpc = "returned" /\ run.result) =>
        /\ WrittenBlock.transcript # << >>
        /\ WrittenBlock.summary # << >>

\* C16 as stated: the second transcoding is invoked only when the first size
\* is over the limit
C16_SecondOnlyWhenOver == run.rpc = "recompress" => run.size > limitBytes

\* C16 as amended: ensureAudioUnderLimit returns the first payload, with no
\* second transcoding, when its size s has 0 < s <= limit, and it goes on to
\* the second transcoding only when s = 0 or s > limit
C16_FirstAttemptAcceptance ==
    /\ [][(run.rpc = "limit" /\ run'.rpc # "limit") =>
            /\ run'.extractCalls = 1
            /\ \/ /\ run'.rpc = "transcribe"
                  /\ run'.payload > 0 /\ run'.payload <= limitBytes
               \/ /\ run'.rpc = "recompress"
                  /\ (run'.size = 0 \/ run'.size > limitBytes)]_vars
    /\ [][run'.extractCalls = 2 =>
            (run.extractCalls = 2 \/
             (run.rpc = "recompress" /\ (run.size = 0 \/ run.size > limitBytes)))]_vars

\* the first payload measured 0 bytes and the second transcoding is next
C16_Witness ==
    /\ run.rpc = "recompress"
    /\ run.size = 0
    /\ run.extractCalls = 1

\* the chunks one after the other
RECURSIVE Concat(_)
Concat(chunks) == IF chunks = << >> THEN << >> ELSE Head(chunks) \o Concat(Tail(chunks))

\* C17: what chunkString returns for a string and a positive size: the chunks
\* in order make up the string, chunk k is the characters (k-1)*size+1 to
\* k*size of it (fewer for the last), every chunk but the last has size
\* characters, the last has 1 to size, and there are ceil(length / size)
\* chunks; the operator the pipeline uses gives the same chunks
C17_ChunkPartition ==
    chunking.rpc = "returned" =>
        LET c == chunking.chunks
            s == chunking.str
            n == chunking.size
        IN  /\ Concat(c) = s
            /\ Len(c) = (Len(s) + n - 1) \div n
            /\ (s = << >>) = (c = << >>)
            /\ \A k \in 1..Len(c) :
                 c[k] = [j \in 1..(IF k * n <= Len(s) THEN n ELSE Len(s) - (k - 1) * n)
                           |-> s[(k - 1) * n + j]]
            /\ \A k \in 1..(Len(c) - 1) : Len(c[k]) = n
            /\ c # << >> => (Len(c[Len(c)]) >= 1 /\ Len(c[Len(c)]) <= n)
            /\ c = chunkString(s, n)

\* a string of four characters was cut into chunks of three
C17_Witness ==
    /\ chunking.rpc = "returned"
    /\ chunking.str = << "a", "b", "b", "a" >>
    /\ chunking.size = 3
    /\ chunking.chunks = << << "a", "b", "b" >>, << "a" >> >>

\* the place of a stage in the order: acquisition, audio normalization, size
\* enforcement, transcription, formatting, summarization, output commit
StageIndex(rpc) ==
    CASE rpc = "acquire" -> 1
      [] rpc = "extract" -> 2
      [] rpc \in {"limit", "recompress"} -> 3
      [] rpc = "transcribe" -> 4
      [] rpc = "format" -> 5
      [] rpc \in {"summarize", "merge"} -> 6
      [] rpc = "write" -> 7
      [] OTHER -> 0

StageNames == << "acquire", "extract", "limit", "transcribe", "format", "summarize" >>

InStage == StageIndex(run.rpc) > 0

\* C18: a run that is in a stage has completed exactly the stages before it,
\* without a failure; a step of a run stays in its stage, goes on to the next
\* stage, or ends the run, and it never enters an earlier stage; the stages
\* completed are never taken back
C18_StageOrder ==
    /\ [](InStage =>
            /\ run.done = {StageNames[k] : k \in 1..(StageIndex(run.rpc) - 1)}
            /\ run.err = NoErr)
    /\ [][(InStage /\ run' # run) =>
            \/ StageIndex(run'.rpc) = StageIndex(run.rpc)
            \/ StageIndex(run'.rpc) = StageIndex(run.rpc) + 1
            \/ run'.rpc = "returned"]_vars
    /\ [][(InStage /\ run'.rpc # "idle") => run.done \subseteq run'.done]_vars
    /\ [][(run.rpc = "returned" /\ run' # run) => run' = RunIdle]_vars

\* a run is at its output commit after a recompression and a chunked summary
C18_Witness ==
    /\ run.rpc = "write"
    /\ run.extractCalls = 2
    /\ Len(run.chatCalls) > 2
    /\ run.done = Stages

\* C19: in batch mode the calls of transcribeSingleFile that have started are
\* at most one more than those that have ended, and one more exactly while
\* main awaits a call; a call starts only when every earlier call has ended,
\* main leaves a call only when it has returned, and a run is in progress
\* only while main awaits it
C19_OneAtATime ==
    /\ [](videoInput = << >> =>
            /\ Len(attempted) \in {Len(log), Len(log) + 1}
            /\ (Len(attempted) = Len(log) + 1) = (pc = "await")
            /\ (run.rpc # "idle") = (pc = "await"))
    /\ [][Len(attempted') > Len(attempted) =>
            (run.rpc = "idle" /\ Len(log) = Len(attempted))]_vars
    /\ [][Len(log') > Len(log) => run.rpc = "returned"]_vars

\* the run of the second item of the queue transcribes after the run of the
\* first item has ended
C19_Witness ==
    /\ pc = "await"
    /\ Len(queue) = 2
    /\ Len(log) = 1
    /\ attempted = queue
    /\ run.rpc = "transcribe"

\* C20: the write of a continue run with block B: a destination with content
\* E holds afterwards E, a newline if and only if E does not end with one,
\* the separator, and B with its final newline; a destination that does not
\* exist holds afterwards B with its final newline and no separator; no other
\* file changes
C20_ContinueLayout ==
    [][(shouldContinue /\ run.rpc = "write" /\ run'.rpc = "returned") =>
        LET out == run.outFile
            B == << Block(buildOutputBlock(run.titleOverride, run.summary, run.formatted)),
                    Ch("\n") >>
        IN  /\ DOMAIN files' = DOMAIN files \cup {out}
            /\ \A n \in DOMAIN files \ {out} : files'[n] = files[n]
            /\ IF out \in DOMAIN files
               THEN LET E == files[out]
                        endsNl == E # << >> /\ E[Len(E)] = Ch("\n")
                    IN  files'[out] =
                          E \o (IF endsNl THEN << >> ELSE << Ch("\n") >>) \o << Sep >> \o B
               ELSE files'[out] = B]_vars

\* a continue run has appended to a destination that did not end with a
\* newline
C20_Witness ==
    /\ shouldContinue
    /\ run.rpc = "returned"
    /\ run.result
    /\ run.startContent = << Ch("x") >>
    /\ Len(files[run.outFile]) = 5
    /\ files[run.outFile][2] = Ch("\n")
    /\ files[run.outFile][3] = Sep

\* the runs so far that returned true
Succeeded == {k \in 1..Len(log) : log[k].ok}

\* C21: when a batch that entered its loop is done, the pair it reports is
\* completed and the length of the queue: every item of the queue was
\* attempted once, completed is the number of runs that returned true, these
\* are the runs that made their destination longer by a block, and a run
\* that failed or skipped left its destination as long as it was; while the
\* batch runs, completed is the number of runs so far that returned true
C21_BatchFinalCount ==
    /\ (videoInput = << >> /\ pc \in {"loop", "await", "done"}) =>
          /\ completed = Cardinality(Succeeded)
          /\ completed >= 0 /\ completed <= Len(log) /\ Len(log) <= Len(queue)
          /\ \A k \in 1..Len(log) : log[k].ok = (log[k].after > log[k].before)
          /\ \A k \in 1..Len(log) : ~ log[k].ok => log[k].after = log[k].before
    /\ (videoInput = << >> /\ pc = "done") =>
          /\ Len(log) = Len(queue)
          /\ attempted = queue

\* a batch of two items is done: the run of the first wrote its block and the
\* run of the second skipped, as its destination existed by then
C21_Witness ==
    /\ videoInput = << >>
    /\ pc = "done"
    /\ Len(queue) = 2
    /\ completed = 1
    /\ log[1].ok
    /\ ~ log[2].ok /\ log[2].existed

\* C22: the queue of a second batch invocation over the same directory
\* holds no item whose run in the first invocation returned true
C22_RerunExcludesSucceeded ==
    (videoInput = << >> /\ invocation = 2 /\ pc # "start") =>
        \A k \in 1..Len(log) :
           (log[k].inv = 1 /\ log[k].ok) =>
               \A q \in 1..Len(queue) : queue[q] # log[k].input

=============================================================================
